---- MODULE Spec2Model ----
(***************************************************************************)
(* Model of ocpdet's online changepoint detectors: NeuralNetwork           *)
(* (src/ocpdet/NeuralNetwork.py), CUSUM (src/ocpdet/CUSUM.py), EWMA        *)
(* (src/ocpdet/EWMA.py) and TwoSample (src/ocpdet/TwoSample.py).           *)
(*                                                                         *)
(* The specifications share the module's variables:                        *)
(*   Spec          detect_bump / detect_increase over a dissimilarity      *)
(*                 sequence, followed by process's time translation;       *)
(*   SpecDissim    compute_dissimilarity over the mini-batches;            *)
(*   SpecSaturated compute_dissimilarity with scores of exactly 0 or 1;    *)
(*   SpecWindow    window_data over a raw stream;                          *)
(*   SpecProcess   NeuralNetwork.process from the raw stream on;           *)
(*   SpecCUSUM     CUSUM.process;                                          *)
(*   SpecEWMA      EWMA.process;                                           *)
(*   SpecCharts    a run of CUSUM.process or of EWMA.process;              *)
(*   SpecTwoSample TwoSample.process.                                      *)
(*                                                                         *)
(* Floating-point numbers are modelled in fixed point: a real x is the     *)
(* integer floor(x * SCALE).  Python list indices are 0-based, TLA+        *)
(* sequences 1-based: PyIndex does the conversion, negative indices        *)
(* included.                                                               *)
(***************************************************************************)
EXTENDS Integers, Sequences, FiniteSets, TLC

VARIABLES
    \* ---- NeuralNetwork attributes set by __init__
    method_arg, method, burnin, timeout, lag, k, self_n,
    \* ---- the exception that has left the running call ("None": none)
    raised,
    \* ---- attributes and locals of detect_bump / detect_increase / process
    dissimilarity, Z, sigma_Z, changepoints,
    n, mu_hat, sigma_hat, last, last_det, last_cp, j, pc,
    crossed,
    \* ---- attributes and locals of compute_dissimilarity
    numBatches, divergence, i, gradSteps, dpc, scored, f_lagged, f_recent,
    \* ---- attributes and locals of window_data
    data, X, Xi, wi, wpc,
    \* ---- CUSUM: attributes, and process's data, loop index and position
    cs_k, cs_h, cs_burnin, cs_mu, cs_sigma, cs__mu, cs__sigma,
    cs_S, cs_T, cs_changepoints, cs_n, cs_data, cs_i, cs_pc,
    \* ---- TwoSample: attributes, and process's argument, locals and position
    ts_stream, ts_data, ts_tau, ts_cp, ts_t, ts_D, ts_changepoints, ts_pc,
    \* ---- EWMA: attributes, and process's data, loop index and position
    ew_L, ew_burnin, ew_mu, ew_sigma, ew__mu, ew__sigma,
    ew_Z, ew_sigma_Z, ew_changepoints, ew_n, ew_data, ew_i, ew_pc

initVars == <<method_arg, method, burnin, timeout, lag, k, self_n>>
excVars  == <<raised>>
detVars  == <<dissimilarity, Z, sigma_Z, changepoints, n, mu_hat, sigma_hat,
              last, last_det, last_cp, j, pc, crossed>>
disVars  == <<numBatches, divergence, i, gradSteps, dpc, scored, f_lagged, f_recent>>
winVars  == <<data, X, Xi, wi, wpc>>
cusVars  == <<cs_k, cs_h, cs_burnin, cs_mu, cs_sigma, cs__mu, cs__sigma,
              cs_S, cs_T, cs_changepoints, cs_n, cs_data, cs_i, cs_pc>>
tsVars   == <<ts_stream, ts_data, ts_tau, ts_cp, ts_t, ts_D, ts_changepoints, ts_pc>>
\* the NeuralNetwork object and its running call
nnVars   == <<initVars, detVars, disVars, winVars>>
ewVars   == <<ew_L, ew_burnin, ew_mu, ew_sigma, ew__mu, ew__sigma,
              ew_Z, ew_sigma_Z, ew_changepoints, ew_n, ew_data, ew_i, ew_pc>>
vars     == <<initVars, excVars, detVars, disVars, winVars, cusVars, tsVars, ewVars>>

---------------------------------------------------------------------------
(* Bounds of the model *)

\* fixed-point resolution: a real x is represented by floor(x * SCALE)
SCALE == 16
\* longest dissimilarity sequence handed to the detector
MaxD == 5
\* largest burnin / timeout constructor argument
MaxBurnin == 3
MaxTimeout == 2
\* largest windowing / lag constructor argument
MaxK == 3
MaxN == 3
MaxLag == 2
\* longest raw stream handed to window_data
MaxT == 6
\* largest number of mini-batches handed to compute_dissimilarity
MaxBatches == 8

\* constructor arguments r and L, as rationals rNum/rDen and LNum/LDen:
\* r = 0.75 and L = 0.25 (with the defaults 0.1 and 3.0 the statistic needs
\* sequences far longer than MaxD to leave the band)
rNum == 3
rDen == 4
LNum == 1
LDen == 4

\* the values a dissimilarity entry takes, in units of 1.0
DissLevels == {-4, 0, 4}
DissValues == {v * SCALE : v \in DissLevels}

\* Python's None for last_det (an index is never negative)
None == -1

---------------------------------------------------------------------------
(* Helpers *)

RECURSIVE SeqsUpTo(_, _)
SeqsUpTo(S, m) ==
    IF m = 0 THEN {<<>>}
    ELSE LET shorter == SeqsUpTo(S, m - 1)
         IN  shorter \cup {Append(s, v) : s \in {t \in shorter : Len(t) = m - 1}, v \in S}

\* seq[idx] with Python's indexing: 0-based, negative indices count from the end
PyIndex(seq, idx) == IF idx >= 0 THEN seq[idx + 1] ELSE seq[Len(seq) + idx + 1]

\* floor of the square root
RECURSIVE ISqrt(_)
ISqrt(x) ==
    IF x < 2 THEN x
    ELSE LET s == 2 * ISqrt(x \div 4)
         IN  IF (s + 1) * (s + 1) <= x THEN s + 1 ELSE s

\* fixed-point (1 - r) ** (2 * jj), scaled by SCALE * SCALE
RECURSIVE PowOneMinusR(_)
PowOneMinusR(jj) ==
    IF jj = 0 THEN SCALE * SCALE
    ELSE (PowOneMinusR(jj - 1) * (rDen - rNum) * (rDen - rNum)) \div (rDen * rDen)

\* np.sqrt((r / (2 - r)) * (1 - (1 - r) ** (2 * jj))), scaled by SCALE
BandFactor(jj) ==
    ISqrt((rNum * (SCALE * SCALE - PowOneMinusR(jj))) \div (2 * rDen - rNum))

---------------------------------------------------------------------------
(* __init__: the method argument *)

\* the method arguments tried: the two the detector knows and one it does not
MethodArgs == {"bump", "increase", "sustained-increase"}

\* faulty variant: an unknown method selects 'increase'
Construct_defaultsIncrease(arg) ==
    [method |-> IF arg = "bump" \/ arg = "increase" THEN arg ELSE "increase",
     raised |-> "None"]

\* __init__'s handling of method: an unknown value prints a message and
\* selects "bump"; nothing is raised
Construct(arg) ==
    [method |-> IF arg = "bump" \/ arg = "increase" THEN arg ELSE "bump",
     raised |-> "None"]

---------------------------------------------------------------------------
(* SequentialDetector: detect_bump / detect_increase *)

\* the detector's attributes and locals as one record
DetState ==
    [Z |-> Z, sigma_Z |-> sigma_Z, changepoints |-> changepoints, n |-> n,
     mu_hat |-> mu_hat, sigma_hat |-> sigma_hat, last |-> last,
     last_det |-> last_det, last_cp |-> last_cp]

\* the state at the entry of detect_bump / detect_increase
DetEntry ==
    [Z |-> <<0>>, sigma_Z |-> <<0>>, changepoints |-> <<>>, n |-> 2,
     mu_hat |-> 0, sigma_hat |-> SCALE, last |-> "None",
     last_det |-> None, last_cp |-> 0]

\* the statistics update every loop iteration starts with:
\* Z.append, Welford update of mu_hat / sigma_hat, n += 1, sigma_Z.append
UpdateStatistics(s, diss, jj) ==
    LET d      == PyIndex(diss, jj)
        Znew   == ((rDen - rNum) * PyIndex(s.Z, jj - 1) + rNum * d) \div rDen
        mu_new == ((s.n - 1) * s.mu_hat + d) \div s.n
        sig    == ISqrt(((d - mu_new) * (d - s.mu_hat)
                         + (s.n - 2) * s.sigma_hat * SCALE) \div (s.n - 1))
    IN  [s EXCEPT !.Z = Append(@, Znew),
                  !.mu_hat = mu_new,
                  !.sigma_hat = sig,
                  !.n = @ + 1,
                  !.sigma_Z = Append(@, (sig * BandFactor(jj)) \div SCALE)]

\* Z[j] > mu_hat + sigma_Z[j] * L
UpCrossing(s, jj) ==
    PyIndex(s.Z, jj) > s.mu_hat + (PyIndex(s.sigma_Z, jj) * LNum) \div LDen

\* Z[j] < mu_hat - sigma_Z[j] * L
DownCrossing(s, jj) ==
    PyIndex(s.Z, jj) < s.mu_hat - (PyIndex(s.sigma_Z, jj) * LNum) \div LDen

\* which band the statistic left at index jj, as the decision rule sees it
CrossingAt(s, jj) ==
    IF UpCrossing(s, jj) THEN "+" ELSE IF DownCrossing(s, jj) THEN "-" ELSE "0"

\* faulty variant: the changepoint is dated at the downward crossing
BumpDecide_emitsDown(s, jj) ==
    LET s1 == IF UpCrossing(s, jj) /\ s.last_det = None
              THEN [s EXCEPT !.last = "+", !.last_det = jj, !.n = 2]
              ELSE s
    IN  IF DownCrossing(s1, jj) /\ s1.last = "+"
        THEN [s1 EXCEPT !.last = "-", !.n = 2,
                        !.changepoints = Append(@, jj),
                        !.last_det = None]
        ELSE s1

\* faulty variant: an upward crossing re-arms an armed detector
BumpDecide_rearms(s, jj) ==
    LET s1 == IF UpCrossing(s, jj)
              THEN [s EXCEPT !.last = "+", !.last_det = jj, !.n = 2]
              ELSE s
    IN  IF DownCrossing(s1, jj) /\ s1.last = "+"
        THEN [s1 EXCEPT !.last = "-", !.n = 2,
                        !.changepoints = Append(@, s1.last_det),
                        !.last_det = None]
        ELSE s1

\* faulty variant: the emission overwrites the changepoint list
BumpDecide_overwrites(s, jj) ==
    LET s1 == IF UpCrossing(s, jj) /\ s.last_det = None
              THEN [s EXCEPT !.last = "+", !.last_det = jj, !.n = 2]
              ELSE s
    IN  IF DownCrossing(s1, jj) /\ s1.last = "+"
        THEN [s1 EXCEPT !.last = "-", !.n = 2,
                        !.changepoints = <<s1.last_det>>,
                        !.last_det = None]
        ELSE s1

\* the two ifs that end an iteration of detect_bump's second loop
BumpDecide(s, jj) ==
    LET s1 == IF UpCrossing(s, jj) /\ s.last_det = None
              THEN [s EXCEPT !.last = "+", !.last_det = jj, !.n = 2]
              ELSE s
    IN  IF DownCrossing(s1, jj) /\ s1.last = "+"
        THEN [s1 EXCEPT !.last = "-", !.n = 2,
                        !.changepoints = Append(@, s1.last_det),
                        !.last_det = None]
        ELSE s1

\* faulty variant: the timeout test is j - last_cp >= timeout
IncreaseDecide_atTimeout(s, jj, tmo) ==
    IF UpCrossing(s, jj)
    THEN LET s1 == IF jj - s.last_cp >= tmo
                   THEN [s EXCEPT !.changepoints = Append(@, jj), !.last_cp = jj]
                   ELSE s
         IN  [s1 EXCEPT !.n = 2]
    ELSE s

\* the if that ends an iteration of detect_increase's second loop
IncreaseDecide(s, jj, tmo) ==
    IF UpCrossing(s, jj)
    THEN LET s1 == IF jj - s.last_cp > tmo
                   THEN [s EXCEPT !.changepoints = Append(@, jj), !.last_cp = jj]
                   ELSE s
         IN  [s1 EXCEPT !.n = 2]
    ELSE s

\* one iteration of the second loop of the selected method
DetectIteration(s, diss, jj, mth, tmo) ==
    LET u == UpdateStatistics(s, diss, jj)
    IN  IF mth = "bump" THEN BumpDecide(u, jj) ELSE IncreaseDecide(u, jj, tmo)

\* faulty variant: the first loop evaluates the decision rule too
BurninIteration_decides(s, diss, jj, mth, tmo) == DetectIteration(s, diss, jj, mth, tmo)

\* one iteration of the first loop (burn-in): the statistics update alone
BurninIteration(s, diss, jj, mth, tmo) == UpdateStatistics(s, diss, jj)

\* detect_bump / detect_increase as a whole, from loop index jj on:
\* range(1, burnin) runs BurninIteration, range(burnin, len(diss)) DetectIteration
RECURSIVE RunLoops(_, _, _, _, _, _)
RunLoops(s, diss, jj, b, mth, tmo) ==
    IF jj >= Len(diss) THEN s
    ELSE RunLoops(IF jj < b THEN BurninIteration(s, diss, jj, mth, tmo)
                            ELSE DetectIteration(s, diss, jj, mth, tmo),
                  diss, jj + 1, b, mth, tmo)

\* the changepoints detect_bump / detect_increase leave for a dissimilarity sequence
DetectRun(diss, b, mth, tmo) ==
    RunLoops(DetEntry, diss, IF b = 0 THEN 0 ELSE 1, b, mth, tmo).changepoints

\* where control goes once the burn-in loop range(1, burnin) is exhausted
AfterBurnin(b, D) == IF b < D THEN "detect" ELSE "translate"

\* where control goes at the entry of detect_bump / detect_increase
EntryPc(b, D) == IF 1 < b THEN "burnin" ELSE AfterBurnin(b, D)
EntryJ(b) == IF 1 < b THEN 1 ELSE b

SetDet(s) ==
    /\ Z' = s.Z
    /\ sigma_Z' = s.sigma_Z
    /\ changepoints' = s.changepoints
    /\ n' = s.n
    /\ mu_hat' = s.mu_hat
    /\ sigma_hat' = s.sigma_hat
    /\ last' = s.last
    /\ last_det' = s.last_det
    /\ last_cp' = s.last_cp

\* one iteration of the first loop, for j in range(1, self.burnin);
\* self.dissimilarity[j] raises IndexError once j runs past the sequence
BurninStep ==
    /\ pc = "burnin"
    /\ IF j >= Len(dissimilarity)
       THEN /\ pc' = "error"
            /\ raised' = "IndexError"
            /\ UNCHANGED <<Z, sigma_Z, changepoints, n, mu_hat, sigma_hat,
                           last, last_det, last_cp, j>>
       ELSE /\ SetDet(BurninIteration(DetState, dissimilarity, j, method, timeout))
            /\ UNCHANGED raised
            /\ IF j + 1 < burnin
               THEN j' = j + 1 /\ pc' = "burnin"
               ELSE j' = burnin /\ pc' = AfterBurnin(burnin, Len(dissimilarity))
    /\ UNCHANGED <<dissimilarity, crossed, initVars, cusVars, tsVars, disVars, winVars, ewVars>>

\* faulty variant: the step writes the smoothed value back into the
\* dissimilarity sequence
DetectStep_smoothsInPlace(mth) ==
    /\ pc = "detect"
    /\ method = mth
    /\ SetDet(DetectIteration(DetState, dissimilarity, j, mth, timeout))
    /\ crossed' = Append(crossed,
                         CrossingAt(UpdateStatistics(DetState, dissimilarity, j), j))
    /\ j' = j + 1
    /\ pc' = IF j + 1 < Len(dissimilarity) THEN "detect" ELSE "translate"
    /\ dissimilarity' =
          [dissimilarity EXCEPT ![j + 1] =
              PyIndex(UpdateStatistics(DetState, dissimilarity, j).Z, -1)]
    /\ UNCHANGED <<initVars, cusVars, tsVars, excVars, disVars, winVars, ewVars>>

\* one iteration of the second loop, for j in range(self.burnin, len(self.dissimilarity))
DetectStep(mth) ==
    /\ pc = "detect"
    /\ method = mth
    /\ SetDet(DetectIteration(DetState, dissimilarity, j, mth, timeout))
    /\ crossed' = Append(crossed,
                         CrossingAt(UpdateStatistics(DetState, dissimilarity, j), j))
    /\ j' = j + 1
    /\ pc' = IF j + 1 < Len(dissimilarity) THEN "detect" ELSE "translate"
    /\ UNCHANGED <<dissimilarity, initVars, cusVars, tsVars, excVars, disVars, winVars, ewVars>>

DetectBumpStep == DetectStep("bump")
DetectIncreaseStep == DetectStep("increase")

\* faulty variant: the translation adds len(data) alone
Translated_noSubtraction(cps, T, D) == [x \in 1..Len(cps) |-> cps[x] + T]

\* process: self.changepoints = np.asarray(self.changepoints) + len(data) - len(self.dissimilarity)
Translated(cps, T, D) == [x \in 1..Len(cps) |-> cps[x] + T - D]

Translate ==
    /\ pc = "translate"
    /\ changepoints' = Translated(changepoints, Len(data), Len(dissimilarity))
    /\ pc' = "done"
    /\ UNCHANGED <<dissimilarity, Z, sigma_Z, n, mu_hat, sigma_hat, last, last_det,
                   last_cp, j, crossed, initVars, cusVars, tsVars, excVars, disVars, winVars, ewVars>>

\* the stream length that leaves a dissimilarity sequence of length D:
\* window_data keeps T-k-n+2 mini-batches, compute_dissimilarity len(Xi)-lag-1 values
StreamLen(D, kk, nn, ll) == D + kk + nn + ll - 1

DisIdle ==
    /\ numBatches = 0
    /\ divergence = <<>>
    /\ i = 0
    /\ gradSteps = 0
    /\ dpc = "idle"
    /\ scored = <<>>
    /\ f_lagged = None
    /\ f_recent = None

WinIdle ==
    /\ X = <<>>
    /\ Xi = <<>>
    /\ wi = 0
    /\ wpc = "idle"

\* no CUSUM object exists
CusIdle ==
    /\ cs_k = 0
    /\ cs_h = 0
    /\ cs_burnin = 0
    /\ cs_mu = 0
    /\ cs_sigma = 0
    /\ cs__mu = <<>>
    /\ cs__sigma = <<>>
    /\ cs_S = <<>>
    /\ cs_T = <<>>
    /\ cs_changepoints = <<>>
    /\ cs_n = 0
    /\ cs_data = <<>>
    /\ cs_i = 0
    /\ cs_pc = "idle"

\* no EWMA object exists
EwIdle ==
    /\ ew_L = 0
    /\ ew_burnin = 0
    /\ ew_mu = 0
    /\ ew_sigma = 0
    /\ ew__mu = <<>>
    /\ ew__sigma = <<>>
    /\ ew_Z = <<>>
    /\ ew_sigma_Z = <<>>
    /\ ew_changepoints = <<>>
    /\ ew_n = 0
    /\ ew_data = <<>>
    /\ ew_i = 0
    /\ ew_pc = "idle"

\* no TwoSample object exists
TsIdle ==
    /\ ts_stream = <<>>
    /\ ts_data = <<>>
    /\ ts_tau = 0
    /\ ts_cp = <<>>
    /\ ts_t = 0
    /\ ts_D = <<>>
    /\ ts_changepoints = <<>>
    /\ ts_pc = "idle"

\* the detector as process() enters detect_bump / detect_increase
Init ==
    /\ method_arg \in MethodArgs
    /\ method = Construct(method_arg).method
    /\ raised = Construct(method_arg).raised
    /\ burnin \in 0..MaxBurnin
    /\ timeout \in 0..MaxTimeout
    /\ \E p \in {1, MaxK} : k = p /\ self_n = p /\ lag = p
    /\ dissimilarity \in SeqsUpTo(DissValues, MaxD)
    /\ data = [x \in 1..StreamLen(Len(dissimilarity), k, self_n, lag) |-> x]
    /\ Z = DetEntry.Z
    /\ sigma_Z = DetEntry.sigma_Z
    /\ changepoints = DetEntry.changepoints
    /\ n = DetEntry.n
    /\ mu_hat = DetEntry.mu_hat
    /\ sigma_hat = DetEntry.sigma_hat
    /\ last = DetEntry.last
    /\ last_det = DetEntry.last_det
    /\ last_cp = DetEntry.last_cp
    /\ j = EntryJ(burnin)
    /\ pc = EntryPc(burnin, Len(dissimilarity))
    /\ crossed = <<>>
    /\ DisIdle
    /\ WinIdle
    /\ CusIdle
    /\ TsIdle
    /\ EwIdle

Next ==
    \/ BurninStep
    \/ DetectBumpStep
    \/ DetectIncreaseStep
    \/ Translate

Spec == Init /\ [][Next]_vars

---------------------------------------------------------------------------
(* DissimilarityEngine: compute_dissimilarity *)

\* the classifier's scores f(X): probabilities q / ScoreDen
ScoreDen == 4
Scores == {1, 3}

\* fixed-point ln(3)
Ln3 == (SCALE * 1099 + 500) \div 1000

\* the scores of a saturated classifier: exactly 0 and exactly 1
SaturatedScores == {0, ScoreDen}

\* IEEE infinities and NaN, which float32 division by zero and log(0) produce:
\* three integers no finite value of the model comes near
PosInf == 1000000
NegInf == 0 - PosInf
NaN == PosInf + 1
IsFinite(x) == x # PosInf /\ x # NegInf /\ x # NaN

\* float addition, subtraction and division by a positive integer
FAdd(a, b) ==
    CASE a = NaN \/ b = NaN                -> NaN
      [] a = PosInf /\ b = NegInf          -> NaN
      [] a = NegInf /\ b = PosInf          -> NaN
      [] a = PosInf \/ a = NegInf          -> a
      [] b = PosInf \/ b = NegInf          -> b
      [] OTHER                              -> a + b
FNeg(a) == IF a = NaN THEN NaN ELSE 0 - a
FSub(a, b) == FAdd(a, FNeg(b))
FDiv(a, m) == IF IsFinite(a) THEN a \div m ELSE a

\* tf.math.log(num / den) for the ratios the scores produce; a zero
\* denominator gives log(inf) = inf, a zero numerator log(0) = -inf
Log(num, den) ==
    CASE den = 0       -> PosInf
      [] num = 0       -> NegInf
      [] num = den     -> 0
      [] num = 3 * den -> Ln3
      [] 3 * num = den -> 0 - Ln3

\* faulty variant: the two log-odds enter with the same sign
Divergence_sameSign(q_lagged, q_recent) ==
    FAdd(Log(q_lagged, ScoreDen - q_lagged), Log(q_recent, ScoreDen - q_recent))

\* d = log((1 - f(X_lagged)) / f(X_lagged)) + log(f(X_recent) / (1 - f(X_recent)))
Divergence(q_lagged, q_recent) ==
    FAdd(Log(ScoreDen - q_lagged, q_lagged), Log(q_recent, ScoreDen - q_recent))

\* the loop's range(len(self.Xi) - self.l - 1)
DissimIterations(nb, ll) == IF nb - ll - 1 > 0 THEN nb - ll - 1 ELSE 0

\* faulty variant: the sequence is held at zero for i <= lag only
NextDissimilarity_shortZeros(diss, div, d, ii, ll) ==
    IF ii <= ll
    THEN 0
    ELSE PyIndex(diss, -1) + (d - PyIndex(div, ii - 1 - ll)) \div ll

\* the value appended to self.dissimilarity in iteration ii
NextDissimilarity(diss, div, d, ii, ll) ==
    IF ii <= ll + 1
    THEN 0
    ELSE FAdd(PyIndex(diss, -1), FDiv(FSub(d, PyIndex(div, ii - 1 - ll)), ll))

\* faulty variant: the recent mini-batch is taken one index late
ScoredPair_recentLate(ii, ll, steps) ==
    [lagged |-> ii, recent |-> ii + ll + 1, steps |-> steps]

\* which mini-batches iteration ii scores (X_lagged = Xi[i], X_recent = Xi[i+l])
\* and how many gradient steps the classifier has taken when it scores them
ScoredPair(ii, ll, steps) ==
    [lagged |-> ii, recent |-> ii + ll, steps |-> steps]

\* one iteration of compute_dissimilarity's loop: score the lagged and the
\* recent mini-batch, append to dissimilarity and divergence, one gradient step
ScoreAndStep(q_lagged, q_recent) ==
    /\ dpc = "loop"
    /\ LET d == Divergence(q_lagged, q_recent)
       IN  /\ dissimilarity' =
                 Append(dissimilarity, NextDissimilarity(dissimilarity, divergence, d, i, lag))
           /\ divergence' = Append(divergence, d)
           /\ f_lagged' = q_lagged
           /\ f_recent' = q_recent
    /\ scored' = Append(scored, ScoredPair(i, lag, gradSteps))
    /\ gradSteps' = gradSteps + 1
    /\ i' = i + 1
    /\ dpc' = IF i + 1 < DissimIterations(numBatches, lag) THEN "loop" ELSE "done"
    /\ UNCHANGED <<numBatches, Z, sigma_Z, changepoints, n, mu_hat, sigma_hat, last,
                   last_det, last_cp, j, pc, crossed, initVars, cusVars, tsVars, excVars, winVars, ewVars>>

\* an iteration in which the classifier scores both mini-batches inside (0, 1)
DissimilarityIteration ==
    \E q_lagged \in Scores : \E q_recent \in Scores : ScoreAndStep(q_lagged, q_recent)

\* an iteration in which the classifier scores a mini-batch exactly 0 or 1
SaturatedIteration ==
    \E q_lagged \in Scores \cup SaturatedScores :
        \E q_recent \in Scores \cup SaturatedScores :
            /\ q_lagged \in SaturatedScores \/ q_recent \in SaturatedScores
            /\ ScoreAndStep(q_lagged, q_recent)

\* the detector's attributes as __init__ leaves them
DetIdle ==
    /\ Z = DetEntry.Z
    /\ sigma_Z = DetEntry.sigma_Z
    /\ changepoints = DetEntry.changepoints
    /\ n = DetEntry.n
    /\ mu_hat = DetEntry.mu_hat
    /\ sigma_hat = DetEntry.sigma_hat
    /\ last = DetEntry.last
    /\ last_det = DetEntry.last_det
    /\ last_cp = DetEntry.last_cp
    /\ j = 0
    /\ pc = "idle"
    /\ crossed = <<>>

\* the object as process() enters compute_dissimilarity
InitDissim ==
    /\ method_arg = "bump"
    /\ method = Construct(method_arg).method
    /\ raised = Construct(method_arg).raised
    /\ burnin = 0
    /\ timeout = 0
    /\ k = 1
    /\ self_n = 1
    /\ lag \in 1..MaxLag
    /\ numBatches \in 0..MaxBatches
    /\ data = [x \in 1..numBatches |-> x]
    /\ dissimilarity = <<>>
    /\ divergence = <<>>
    /\ i = 0
    /\ gradSteps = 0
    /\ scored = <<>>
    /\ f_lagged = None
    /\ f_recent = None
    /\ dpc = IF DissimIterations(numBatches, lag) > 0 THEN "loop" ELSE "done"
    /\ DetIdle
    /\ WinIdle
    /\ CusIdle
    /\ TsIdle
    /\ EwIdle

NextDissim == DissimilarityIteration

SpecDissim == InitDissim /\ [][NextDissim]_vars

\* compute_dissimilarity with a classifier whose scores may saturate
NextSaturated ==
    \/ DissimilarityIteration
    \/ SaturatedIteration

SpecSaturated == InitDissim /\ [][NextSaturated]_vars

---------------------------------------------------------------------------
(* Windower: window_data *)

\* seq[a:b] with Python's slicing, for 0 <= a
PySlice(seq, a, b) == SubSeq(seq, a + 1, IF b < Len(seq) THEN b ELSE Len(seq))

\* faulty variant: the first loop stops one window early
NumWindows_oneShort(T, kk) == IF T - kk > 0 THEN T - kk ELSE 0

\* the first loop's range(T - self.k + 1)
NumWindows(T, kk) == IF T - kk + 1 > 0 THEN T - kk + 1 ELSE 0

\* the second loop's range(T - self.k - self.n + 2)
NumMiniBatches(T, kk, nn) == IF T - kk - nn + 2 > 0 THEN T - kk - nn + 2 ELSE 0

\* where control goes once the first loop is exhausted
AfterWindows(T, kk, nn) == IF NumMiniBatches(T, kk, nn) > 0 THEN "batches" ELSE "done"

\* one iteration of the first loop: self.X.append(data[i:self.k+i])
WindowAppend ==
    /\ wpc = "windows"
    /\ X' = Append(X, PySlice(data, wi, k + wi))
    /\ IF wi + 1 < NumWindows(Len(data), k)
       THEN wi' = wi + 1 /\ wpc' = "windows"
       ELSE wi' = 0 /\ wpc' = AfterWindows(Len(data), k, self_n)
    /\ UNCHANGED <<data, Xi, initVars, cusVars, tsVars, excVars, detVars, disVars, ewVars>>

\* one iteration of the second loop: self.Xi.append(self.X[i:self.n+i])
MiniBatchAppend ==
    /\ wpc = "batches"
    /\ Xi' = Append(Xi, PySlice(X, wi, self_n + wi))
    /\ IF wi + 1 < NumMiniBatches(Len(data), k, self_n)
       THEN wi' = wi + 1 /\ wpc' = "batches"
       ELSE wi' = wi + 1 /\ wpc' = "done"
    /\ UNCHANGED <<data, X, initVars, cusVars, tsVars, excVars, detVars, disVars, ewVars>>

\* the object as process() enters window_data
InitWindow ==
    /\ method_arg = "bump"
    /\ method = Construct(method_arg).method
    /\ raised = Construct(method_arg).raised
    /\ burnin = 0
    /\ timeout = 0
    /\ lag = 1
    /\ k \in 1..MaxK
    /\ self_n \in 1..MaxN
    /\ \E T \in 0..MaxT : data = [x \in 1..T |-> x]
    /\ X = <<>>
    /\ Xi = <<>>
    /\ wi = 0
    /\ wpc = IF NumWindows(Len(data), k) > 0 THEN "windows"
             ELSE AfterWindows(Len(data), k, self_n)
    /\ dissimilarity = <<>>
    /\ DetIdle
    /\ DisIdle
    /\ CusIdle
    /\ TsIdle
    /\ EwIdle

NextWindow ==
    \/ WindowAppend
    \/ MiniBatchAppend

SpecWindow == InitWindow /\ [][NextWindow]_vars

---------------------------------------------------------------------------
(* process: window_data, compute_dissimilarity, the selected detector and *)
(* the time translation, one after the other                              *)

\* window_data has returned: process calls self.compute_dissimilarity(),
\* whose loop runs over range(len(self.Xi) - self.l - 1)
EnterComputeDissimilarity ==
    /\ wpc = "done"
    /\ dpc = "idle"
    /\ numBatches' = Len(Xi)
    /\ dpc' = IF DissimIterations(Len(Xi), lag) > 0 THEN "loop" ELSE "done"
    /\ UNCHANGED <<divergence, i, gradSteps, scored, f_lagged, f_recent,
                   initVars, cusVars, tsVars, excVars, detVars, winVars, ewVars>>

\* compute_dissimilarity has returned: process calls the detector self.method
\* names, which starts its first loop at j = 1 (or has none to run)
EnterDetect ==
    /\ dpc = "done"
    /\ pc = "idle"
    /\ j' = EntryJ(burnin)
    /\ pc' = EntryPc(burnin, Len(dissimilarity))
    /\ UNCHANGED <<dissimilarity, Z, sigma_Z, changepoints, n, mu_hat, sigma_hat,
                   last, last_det, last_cp, crossed,
                   initVars, cusVars, tsVars, excVars, disVars, winVars, ewVars>>

\* the object as process(data) is called on a freshly constructed detector
InitProcess ==
    /\ method_arg \in {"bump", "increase"}
    /\ method = Construct(method_arg).method
    /\ raised = Construct(method_arg).raised
    /\ burnin \in 0..MaxBurnin
    /\ timeout \in {0, MaxTimeout}
    /\ lag \in 1..MaxLag
    /\ k \in 1..MaxK
    /\ self_n \in 1..MaxN
    /\ \E T \in 0..MaxT : data = [x \in 1..T |-> x]
    /\ X = <<>>
    /\ Xi = <<>>
    /\ wi = 0
    /\ wpc = IF NumWindows(Len(data), k) > 0 THEN "windows"
             ELSE AfterWindows(Len(data), k, self_n)
    /\ dissimilarity = <<>>
    /\ DetIdle
    /\ DisIdle
    /\ CusIdle
    /\ TsIdle
    /\ EwIdle

NextProcess ==
    \/ WindowAppend
    \/ MiniBatchAppend
    \/ EnterComputeDissimilarity
    \/ DissimilarityIteration
    \/ EnterDetect
    \/ BurninStep
    \/ DetectBumpStep
    \/ DetectIncreaseStep
    \/ Translate

SpecProcess == InitProcess /\ [][NextProcess]_vars

---------------------------------------------------------------------------
(* CUSUM (src/ocpdet/CUSUM.py): process runs update_mean_variance,        *)
(* update_statistics and decision_rule for every i in range(1, len(data)) *)

\* longest stream handed to CUSUM.process
MaxCusumLen == 5

\* the observations of the stream, in units of 1.0
CusumLevels == {-2, 0, 2}
CusumValues == {v * SCALE : v \in CusumLevels}

\* constructor arguments: k = 0.25 (the default), h = 0.5 or 1.0 (with the
\* default 8.0 no statistic passes the threshold within MaxCusumLen steps),
\* mu = 0.0 (the default), sigma = 1.0 (the default) or 0.0
CusumK == SCALE \div 4
CusumH == {SCALE \div 2, SCALE}
CusumMu == 0
CusumSigma == {0, SCALE}

Max(a, b) == IF a >= b THEN a ELSE b

\* (data_new - self.mu) / self.sigma
Standardised(x, mu, sigma) == ((x - mu) * SCALE) \div sigma

\* the value update_statistics appends to self.S
NextS(S, z, kk) == Max(0, PyIndex(S, -1) + z - kk)

\* the value update_statistics appends to self.T: self.S has been appended
\* to already, so self.S[-1] is the new value of S
NextT(S, T, z, kk) == Max(0, PyIndex(S, -1) - z - kk)

\* update_mean_variance(data[i])
CUSUM_update_mean_variance ==
    /\ cs_pc = "mean"
    /\ LET x      == PyIndex(cs_data, cs_i)
           mu_new == cs_mu + (x - cs_mu) \div cs_n
           sig    == ISqrt(cs_sigma * cs_sigma
                           + ((x - cs_mu) * (x - mu_new) - cs_sigma * cs_sigma) \div cs_n)
       IN  /\ cs_sigma' = sig
           /\ cs_mu' = mu_new
           /\ cs__mu' = Append(cs__mu, mu_new)
           /\ cs__sigma' = Append(cs__sigma, sig)
    /\ cs_pc' = "stat"
    /\ UNCHANGED <<cs_k, cs_h, cs_burnin, cs_S, cs_T, cs_changepoints, cs_n, cs_data,
                   cs_i, nnVars, excVars, tsVars, ewVars>>

\* update_statistics(data[i]); the division raises when self.sigma is 0.0
CUSUM_update_statistics ==
    /\ cs_pc = "stat"
    /\ IF cs_sigma = 0
       THEN /\ raised' = "ZeroDivisionError"
            /\ cs_pc' = "error"
            /\ UNCHANGED <<cs_S, cs_T>>
       ELSE LET z    == Standardised(PyIndex(cs_data, cs_i), cs_mu, cs_sigma)
                Snew == Append(cs_S, NextS(cs_S, z, cs_k))
            IN  /\ cs_S' = Snew
                /\ cs_T' = Append(cs_T, NextT(Snew, cs_T, z, cs_k))
                /\ cs_pc' = "decide"
                /\ UNCHANGED raised
    /\ UNCHANGED <<cs_k, cs_h, cs_burnin, cs_mu, cs_sigma, cs__mu, cs__sigma,
                   cs_changepoints, cs_n, cs_data, cs_i, nnVars, tsVars, ewVars>>

\* faulty variant: a detection leaves the run-length counter counting
CUSUM_decision_rule_keepsCounting ==
    /\ cs_pc = "decide"
    /\ IF cs_i >= cs_burnin /\ (PyIndex(cs_S, -1) > cs_h \/ PyIndex(cs_T, -1) > cs_h)
       THEN /\ cs_changepoints' = Append(cs_changepoints, cs_i)
            /\ cs_S' = [cs_S EXCEPT ![Len(cs_S)] = 0]
            /\ cs_T' = [cs_T EXCEPT ![Len(cs_T)] = 0]
            /\ cs_n' = cs_n + 1
       ELSE /\ cs_n' = cs_n + 1
            /\ UNCHANGED <<cs_changepoints, cs_S, cs_T>>
    /\ cs_i' = cs_i + 1
    /\ cs_pc' = IF cs_i + 1 < Len(cs_data) THEN "mean" ELSE "done"
    /\ UNCHANGED <<cs_k, cs_h, cs_burnin, cs_mu, cs_sigma, cs__mu, cs__sigma, cs_data,
                   nnVars, excVars, tsVars, ewVars>>

\* decision_rule(i), and the loop's step to the next i
CUSUM_decision_rule ==
    /\ cs_pc = "decide"
    /\ IF cs_i >= cs_burnin /\ (PyIndex(cs_S, -1) > cs_h \/ PyIndex(cs_T, -1) > cs_h)
       THEN /\ cs_changepoints' = Append(cs_changepoints, cs_i)
            /\ cs_S' = [cs_S EXCEPT ![Len(cs_S)] = 0]
            /\ cs_T' = [cs_T EXCEPT ![Len(cs_T)] = 0]
            /\ cs_n' = 2
       ELSE /\ cs_n' = cs_n + 1
            /\ UNCHANGED <<cs_changepoints, cs_S, cs_T>>
    /\ cs_i' = cs_i + 1
    /\ cs_pc' = IF cs_i + 1 < Len(cs_data) THEN "mean" ELSE "done"
    /\ UNCHANGED <<cs_k, cs_h, cs_burnin, cs_mu, cs_sigma, cs__mu, cs__sigma, cs_data,
                   nnVars, excVars, tsVars, ewVars>>

\* no NeuralNetwork object exists
NnIdle ==
    /\ method_arg = "bump"
    /\ method = Construct(method_arg).method
    /\ burnin = 0
    /\ timeout = 0
    /\ lag = 1
    /\ k = 1
    /\ self_n = 1
    /\ data = <<>>
    /\ dissimilarity = <<>>
    /\ DetIdle
    /\ DisIdle
    /\ WinIdle

\* a freshly constructed CUSUM as process(data) is called
InitCUSUM ==
    /\ cs_k = CusumK
    /\ cs_h \in CusumH
    /\ cs_burnin \in 0..MaxBurnin
    /\ cs_mu = CusumMu
    /\ cs_sigma \in CusumSigma
    /\ cs__mu = <<cs_mu>>
    /\ cs__sigma = <<cs_sigma>>
    /\ cs_S = <<0>>
    /\ cs_T = <<0>>
    /\ cs_changepoints = <<>>
    /\ cs_n = 2
    /\ cs_data \in SeqsUpTo(CusumValues, MaxCusumLen)
    /\ cs_i = 1
    /\ cs_pc = IF 1 < Len(cs_data) THEN "mean" ELSE "done"
    /\ raised = "None"
    /\ NnIdle
    /\ TsIdle
    /\ EwIdle

NextCUSUM ==
    \/ CUSUM_update_mean_variance
    \/ CUSUM_update_statistics
    \/ CUSUM_decision_rule

SpecCUSUM == InitCUSUM /\ [][NextCUSUM]_vars

---------------------------------------------------------------------------
(* TwoSample (src/ocpdet/TwoSample.py): process calls process_batch on the *)
(* remainder of the stream until it returns None                           *)

\* longest stream handed to TwoSample.process
MaxStream == 6

\* the constructor's threshold, 3.1 (the default)
Threshold == (31 * SCALE) \div 10

\* what one call of the test statistic does: it raises in both of the two
\* call syntaxes (StatRaises), or abs() of its value is 2.0 or 4.0
StatRaises == 0 - 1
StatOutcomes == {StatRaises, 2 * SCALE, 4 * SCALE}

\* the value the try / except ladder appends to Dkn
DknEntry(outcome) == IF outcome = StatRaises THEN 0 ELSE outcome

\* max(Dkn)
SeqMax(seq) ==
    CHOOSE m \in {seq[x] : x \in 1..Len(seq)} : \A y \in 1..Len(seq) : seq[y] <= m

RECURSIVE SeqSum(_)
SeqSum(seq) == IF seq = <<>> THEN 0 ELSE seq[1] + SeqSum(Tail(seq))

\* faulty variant: the positions are kept relative to their own batch
CumSum_relative(seq) == seq

\* np.cumsum(seq)
CumSum(seq) == [x \in 1..Len(seq) |-> SeqSum(SubSeq(seq, 1, x))]

\* cp[:-1]
AllButLast(seq) == SubSeq(seq, 1, Len(seq) - 1)

\* process's loop body up to the entry of process_batch: data = data[tau:],
\* self.t = 2, and the while condition's first evaluation
TS_call_process_batch ==
    /\ ts_pc = "call"
    /\ ts_data' = PySlice(ts_data, ts_tau, Len(ts_data))
    /\ ts_t' = 2
    /\ IF 2 < Len(ts_data')
       THEN ts_pc' = "batch" /\ UNCHANGED ts_tau
       ELSE ts_pc' = "returned" /\ ts_tau' = None
    /\ UNCHANGED <<ts_stream, ts_cp, ts_D, ts_changepoints, nnVars, excVars, cusVars, ewVars>>

\* one iteration of process_batch's while loop: the statistic for every split
\* k in range(1, self.t), self.D.append(max(Dkn)), and the threshold test
TS_batch_iteration ==
    /\ ts_pc = "batch"
    /\ \E outcomes \in [1..ts_t - 1 -> StatOutcomes] :
         LET Dkn == [kk \in 1..ts_t - 1 |-> DknEntry(outcomes[kk])]
         IN  /\ ts_D' = Append(ts_D, SeqMax(Dkn))
             /\ IF SeqMax(Dkn) < Threshold
                THEN /\ ts_t' = ts_t + 1
                     /\ IF ts_t + 1 < Len(ts_data)
                        THEN ts_pc' = "batch" /\ UNCHANGED ts_tau
                        ELSE ts_pc' = "returned" /\ ts_tau' = None
                ELSE /\ ts_tau' = ts_t
                     /\ ts_pc' = "returned"
                     /\ UNCHANGED ts_t
    /\ UNCHANGED <<ts_stream, ts_data, ts_cp, ts_changepoints, nnVars, excVars, cusVars, ewVars>>

\* process_batch has returned tau: self.D.append(self.D[-1]), cp.append(tau),
\* the test of the while loop and, once tau is None, the cumulative sum
TS_after_batch ==
    /\ ts_pc = "returned"
    /\ ts_D' = Append(ts_D, PyIndex(ts_D, -1))
    /\ ts_cp' = Append(ts_cp, ts_tau)
    /\ IF ts_tau # None
       THEN ts_pc' = "call" /\ UNCHANGED ts_changepoints
       ELSE ts_pc' = "done" /\ ts_changepoints' = CumSum(AllButLast(ts_cp'))
    /\ UNCHANGED <<ts_stream, ts_data, ts_tau, ts_t, nnVars, excVars, cusVars, ewVars>>

\* a freshly constructed TwoSample as process(data) is called
InitTwoSample ==
    /\ \E T \in 0..MaxStream : ts_stream = [x \in 1..T |-> x]
    /\ ts_data = ts_stream
    /\ ts_tau = 0
    /\ ts_cp = <<>>
    /\ ts_t = 2
    /\ ts_D = <<SCALE>>
    /\ ts_changepoints = <<>>
    /\ ts_pc = "call"
    /\ raised = "None"
    /\ NnIdle
    /\ CusIdle
    /\ EwIdle

NextTwoSample ==
    \/ TS_call_process_batch
    \/ TS_batch_iteration
    \/ TS_after_batch

\* process is sequential code: whenever a step is possible it is taken
SpecTwoSample == InitTwoSample /\ [][NextTwoSample]_vars /\ WF_vars(NextTwoSample)

---------------------------------------------------------------------------
(* EWMA (src/ocpdet/EWMA.py): process runs update_mean_variance,          *)
(* update_statistics and decision_rule for every i in range(1, len(data)) *)

\* longest stream handed to EWMA.process
MaxEwmaLen == 5

\* the observations of the stream, in units of 1.0
EwmaLevels == {-2, 0, 2}
EwmaValues == {v * SCALE : v \in EwmaLevels}

\* constructor arguments: r = rNum / rDen, L = 0.25 or 0.0 (as numerators
\* over LDen), mu = 0.0 and sigma = 1.0 (the defaults)
EwmaL == {0, LNum}
EwmaMu == 0
EwmaSigma == SCALE

Abs(a) == IF a >= 0 THEN a ELSE 0 - a

\* update_mean_variance(data[i])
EWMA_update_mean_variance ==
    /\ ew_pc = "mean"
    /\ LET x      == PyIndex(ew_data, ew_i)
           mu_new == ew_mu + (x - ew_mu) \div ew_n
           sig    == ISqrt(ew_sigma * ew_sigma
                           + ((x - ew_mu) * (x - mu_new) - ew_sigma * ew_sigma) \div ew_n)
       IN  /\ ew_sigma' = sig
           /\ ew_mu' = mu_new
           /\ ew__mu' = Append(ew__mu, mu_new)
           /\ ew__sigma' = Append(ew__sigma, sig)
    /\ ew_pc' = "stat"
    /\ UNCHANGED <<ew_L, ew_burnin, ew_Z, ew_sigma_Z, ew_changepoints, ew_n, ew_data,
                   ew_i, nnVars, excVars, cusVars, tsVars>>

\* update_statistics(i, data[i])
EWMA_update_statistics ==
    /\ ew_pc = "stat"
    /\ ew_Z' = Append(ew_Z, ((rDen - rNum) * PyIndex(ew_Z, -1)
                             + rNum * PyIndex(ew_data, ew_i)) \div rDen)
    /\ ew_sigma_Z' = Append(ew_sigma_Z, (ew_sigma * BandFactor(ew_i)) \div SCALE)
    /\ ew_pc' = "decide"
    /\ UNCHANGED <<ew_L, ew_burnin, ew_mu, ew_sigma, ew__mu, ew__sigma, ew_changepoints,
                   ew_n, ew_data, ew_i, nnVars, excVars, cusVars, tsVars>>

\* decision_rule(i), and the loop's step to the next i; the division by
\* self.L is evaluated only when i >= self.burnin and raises when L is 0.0
EWMA_decision_rule ==
    /\ ew_pc = "decide"
    /\ IF ew_i >= ew_burnin /\ ew_L = 0
       THEN /\ raised' = "ZeroDivisionError"
            /\ ew_pc' = "error"
            /\ UNCHANGED <<ew_changepoints, ew_n, ew_i>>
       ELSE /\ IF /\ ew_i >= ew_burnin
                  /\ (Abs(PyIndex(ew_Z, -1) - ew_mu) * LDen) \div ew_L
                         > PyIndex(ew_sigma_Z, -1)
               THEN /\ ew_changepoints' = Append(ew_changepoints, ew_i)
                    /\ ew_n' = 2
               ELSE /\ ew_n' = ew_n + 1
                    /\ UNCHANGED ew_changepoints
            /\ ew_i' = ew_i + 1
            /\ ew_pc' = IF ew_i + 1 < Len(ew_data) THEN "mean" ELSE "done"
            /\ UNCHANGED raised
    /\ UNCHANGED <<ew_L, ew_burnin, ew_mu, ew_sigma, ew__mu, ew__sigma, ew_Z, ew_sigma_Z,
                   ew_data, nnVars, cusVars, tsVars>>

\* a freshly constructed EWMA as process(data) is called
InitEWMA ==
    /\ ew_L \in EwmaL
    /\ ew_burnin \in 0..MaxBurnin
    /\ ew_mu = EwmaMu
    /\ ew_sigma = EwmaSigma
    /\ ew__mu = <<ew_mu>>
    /\ ew__sigma = <<ew_sigma>>
    /\ ew_Z = <<ew_mu>>
    /\ ew_sigma_Z = <<0>>
    /\ ew_changepoints = <<>>
    /\ ew_n = 2
    /\ ew_data \in SeqsUpTo(EwmaValues, MaxEwmaLen)
    /\ ew_i = 1
    /\ ew_pc = IF 1 < Len(ew_data) THEN "mean" ELSE "done"
    /\ raised = "None"
    /\ NnIdle
    /\ CusIdle
    /\ TsIdle

NextEWMA ==
    \/ EWMA_update_mean_variance
    \/ EWMA_update_statistics
    \/ EWMA_decision_rule

SpecEWMA == InitEWMA /\ [][NextEWMA]_vars

\* the two control charts: a run of CUSUM.process or a run of EWMA.process
InitCharts == InitCUSUM \/ InitEWMA

NextCharts ==
    \/ NextCUSUM
    \/ NextEWMA

SpecCharts == InitCharts /\ [][NextCharts]_vars

---------------------------------------------------------------------------
(* Properties of the SequentialDetector, checked under Spec *)

\* the loop index at which the p-th entry of crossed was evaluated
IndexOf(p) == burnin + p - 1

\* the indices at which the decision rule saw an upward / a downward crossing
UpIndices == {IndexOf(p) : p \in {q \in 1..Len(crossed) : crossed[q] = "+"}}
DownIndices == {IndexOf(p) : p \in {q \in 1..Len(crossed) : crossed[q] = "-"}}

Range(seq) == {seq[x] : x \in 1..Len(seq)}

StrictlyIncreasing(seq) == \A x \in 1..Len(seq) - 1 : seq[x] < seq[x + 1]

\* the detector has run over the whole sequence and process has not translated yet
Detected == pc = "translate"

\* the crossing the decision rule sees in the step being taken
StepCrossing == crossed'[Len(crossed')]

\* C1: in bump mode, a sequence with exactly one upward crossing, at j, and a
\* downward crossing at some later j' yields exactly one changepoint, and it is
\* j (not j').
C1_BumpSingleExcursion ==
    (method = "bump" /\ Detected)
    => \A a \in UpIndices :
         (UpIndices = {a} /\ \E b \in DownIndices : b > a)
         => changepoints = <<a>>

C1_Witness ==
    /\ method = "bump"
    /\ burnin >= 1
    /\ Detected
    /\ \E a \in UpIndices :
         /\ UpIndices = {a}
         /\ \E b \in DownIndices : b > a + 1
         /\ changepoints = <<a>>

\* C2 (as claimed): in increase mode, when the only upward crossings are at
\* j1 < j2, j1 is reported; j2 is not reported when j2 - j1 < timeout and is
\* reported when j2 - j1 > timeout.
C2_IncreaseTwoCrossings ==
    (method = "increase" /\ Detected)
    => \A j1 \in UpIndices : \A j2 \in UpIndices :
         (UpIndices = {j1, j2} /\ j1 < j2)
         => /\ j1 \in Range(changepoints)
            /\ (j2 - j1 < timeout => j2 \notin Range(changepoints))
            /\ (j2 - j1 > timeout => j2 \in Range(changepoints))

\* C3: in increase mode any two changepoints are more than timeout apart.
C3_IncreaseTimeoutGap ==
    method = "increase"
    => \A x \in 1..Len(changepoints) : \A y \in 1..Len(changepoints) :
         x < y => changepoints[y] - changepoints[x] > timeout

C3_Witness ==
    /\ method = "increase"
    /\ timeout >= 1
    /\ Detected
    /\ Len(changepoints) >= 2
    /\ Cardinality(UpIndices) > Len(changepoints)

\* C4: bump mode is the two-state machine IDLE / ARMED(a).  While armed at a,
\* a step that sees no downward crossing (an upward one included) keeps a,
\* does not reset n and emits nothing; a downward crossing emits a and
\* disarms.  While idle, the first upward crossing arms at its own index and
\* nothing else does.  An arming that no downward crossing follows has emitted
\* nothing.
C4_BumpStep ==
    (method = "bump" /\ pc = "detect")
    => /\ (last_det # None /\ StepCrossing # "-")
          => /\ last_det' = last_det
             /\ n' = n + 1
             /\ changepoints' = changepoints
       /\ (last_det # None /\ StepCrossing = "-")
          => /\ changepoints' = Append(changepoints, last_det)
             /\ last_det' = None
       /\ (last_det = None /\ StepCrossing = "+")
          => /\ last_det' = j
             /\ changepoints' = changepoints
       /\ (last_det = None /\ StepCrossing # "+")
          => /\ last_det' = None
             /\ changepoints' = changepoints
       /\ last_det' # None => \A x \in 1..Len(changepoints') : changepoints'[x] < last_det'

C4_BumpArmedIgnoresUp == [][C4_BumpStep]_vars

C4_Witness ==
    /\ method = "bump"
    /\ burnin >= 1
    /\ Detected
    /\ \E p \in 1..Len(crossed) : \E q \in 1..Len(crossed) : \E t \in 1..Len(crossed) :
         /\ p < q /\ q < t
         /\ crossed[p] = "+" /\ crossed[q] = "+" /\ crossed[t] = "-"
         /\ \A u \in 1..t - 1 : crossed[u] # "-"
         /\ \A u \in 1..p - 1 : crossed[u] # "+"
         /\ changepoints[1] = IndexOf(p)

\* C5: process reports every changepoint as its detector-internal index (an
\* index at which the rule saw an upward crossing) plus len(data) -
\* len(dissimilarity), and the reported changepoints are strictly increasing.
C5_TranslateStep ==
    (pc = "translate" /\ pc' = "done")
    => /\ Len(changepoints') = Len(changepoints)
       /\ \A x \in 1..Len(changepoints) :
            /\ changepoints'[x] = changepoints[x] + (Len(data) - Len(dissimilarity))
            /\ changepoints[x] \in UpIndices
       /\ StrictlyIncreasing(changepoints)
       /\ StrictlyIncreasing(changepoints')

C5_CoordinateTranslation == [][C5_TranslateStep]_vars

C5_Witness ==
    /\ pc = "done"
    /\ method = "bump"
    /\ burnin >= 1
    /\ Len(data) - Len(dissimilarity) > 0
    /\ Len(changepoints) >= 2
    /\ changepoints[1] - (Len(data) - Len(dissimilarity)) \in UpIndices

\* C6: the decision rule is never evaluated at an index below burnin: an
\* iteration at j < burnin extends Z and sigma_Z and advances the running
\* estimate, and records neither a crossing nor a changepoint; every recorded
\* changepoint is >= burnin.
C6_Step ==
    /\ (pc = "burnin" /\ pc' # "error")
       => /\ j \in 1..burnin - 1
          /\ Len(Z') = Len(Z) + 1
          /\ Z'[Len(Z')] = ((rDen - rNum) * PyIndex(Z, j - 1)
                            + rNum * PyIndex(dissimilarity, j)) \div rDen
          /\ Len(sigma_Z') = Len(sigma_Z) + 1
          /\ n' = n + 1
          /\ mu_hat' = ((n - 1) * mu_hat + PyIndex(dissimilarity, j)) \div n
          /\ changepoints' = changepoints
          /\ crossed' = crossed
    /\ crossed' # crossed => j >= burnin
    /\ pc' # "done" => \A x \in 1..Len(changepoints') : changepoints'[x] >= burnin

C6_BurninNoDecision == [][C6_Step]_vars

C6_Witness ==
    /\ Detected
    /\ burnin = 3
    /\ Len(Z) = Len(dissimilarity)
    /\ Z[2] # 0
    /\ changepoints # <<>>
    /\ changepoints[1] = burnin

\* C7: a detection step leaves the changepoint list alone or appends one index
\* to it; and the changepoints detected on a prefix of the dissimilarity
\* sequence (of length >= burnin) are a prefix of those detected on the whole.
IsPrefix(a, b) == Len(a) <= Len(b) /\ \A x \in 1..Len(a) : a[x] = b[x]

C7_Step ==
    /\ pc \in {"burnin", "detect"}
       => \/ changepoints' = changepoints
          \/ \E x \in 0..Len(dissimilarity) : changepoints' = Append(changepoints, x)
    /\ Detected
       => \A m \in burnin..Len(dissimilarity) :
            IsPrefix(DetectRun(SubSeq(dissimilarity, 1, m), burnin, method, timeout),
                     changepoints)

C7_AppendOnlyCausal == [][C7_Step]_vars

C7_Witness ==
    /\ Detected
    /\ burnin >= 1
    /\ Len(changepoints) >= 2
    /\ \E m \in burnin..Len(dissimilarity) - 1 :
         Len(DetectRun(SubSeq(dissimilarity, 1, m), burnin, method, timeout)) = 1

---------------------------------------------------------------------------
(* Properties of the DissimilarityEngine, checked under SpecDissim *)

RECURSIVE SumFromTo(_, _, _)
\* seq[a] + ... + seq[b], Python indices
SumFromTo(seq, a, b) == IF a > b THEN 0 ELSE PyIndex(seq, a) + SumFromTo(seq, a + 1, b)

\* C8 (as claimed): at every index idx > lag+1 the incrementally updated
\* dissimilarity equals the mean of the trailing lag divergence values.
\* (With MaxLag = 2 and Ln3 = 18 every division by lag is exact.)
C8_RollingMeanEquivalence ==
    \A idx \in 0..Len(dissimilarity) - 1 :
        idx > lag + 1
        => lag * PyIndex(dissimilarity, idx) = SumFromTo(divergence, idx - lag + 1, idx)

\* C9: every dissimilarity value at an index <= lag+1 is exactly 0.
C9_DissimilarityBurnin ==
    \A idx \in 0..Len(dissimilarity) - 1 :
        idx <= lag + 1 => PyIndex(dissimilarity, idx) = 0

C9_Witness ==
    /\ dpc = "done"
    /\ Len(dissimilarity) > lag + 2
    /\ \A idx \in 0..lag + 1 : PyIndex(divergence, idx) # 0
    /\ PyIndex(dissimilarity, lag + 2) # 0

---------------------------------------------------------------------------
(* Properties of the Windower, checked under SpecWindow *)

\* C10: for k, n >= 1 with k+n-1 <= T, window_data leaves T-k+1 windows and
\* T-k-n+2 mini-batches; mini-batch b holds the n windows b..b+n-1, and each
\* window the k observations from its index on (shape (n, k, d), no padding).
C10_WindowingShape ==
    (wpc = "done" /\ k + self_n - 1 <= Len(data))
    => /\ Len(X) = Len(data) - k + 1
       /\ Len(Xi) = Len(data) - k - self_n + 2
       /\ \A b \in 0..Len(Xi) - 1 :
            /\ Len(PyIndex(Xi, b)) = self_n
            /\ \A w \in 0..self_n - 1 :
                 /\ PyIndex(PyIndex(Xi, b), w) = PyIndex(X, b + w)
                 /\ Len(PyIndex(X, b + w)) = k
                 /\ \A o \in 0..k - 1 :
                      PyIndex(PyIndex(X, b + w), o) = PyIndex(data, b + w + o)

C10_Witness ==
    /\ wpc = "done"
    /\ k >= 2
    /\ self_n >= 2
    /\ Len(Xi) >= 2
    /\ Len(Xi) = Len(data) - k - self_n + 2
    /\ Len(PyIndex(Xi, -1)) = self_n

---------------------------------------------------------------------------
(* Properties of __init__, checked under Spec *)

---------------------------------------------------------------------------
(* Properties of process, checked under SpecProcess *)

\* process has returned or has been left by an exception
ProcessEnded == pc = "done" \/ pc = "error"

\* C12: when k + n - 1 > T the call of process ends with a ConfigurationError,
\* and no window was built, no mini-batch scored, no gradient step taken and
\* no detector statistic appended.
C12_ShortStreamFailsFast ==
    (self_n + k - 1 > Len(data) /\ ProcessEnded)
        => /\ raised = "ConfigurationError"
           /\ X = <<>>
           /\ Xi = <<>>
           /\ scored = <<>>
           /\ gradSteps = 0
           /\ Z = DetEntry.Z

---------------------------------------------------------------------------
(* Properties of compute_dissimilarity with saturated scores, checked *)
(* under SpecSaturated                                                 *)

\* C13: whatever the classifier returns, a score of exactly 0 or 1 included,
\* no infinite or undefined value is ever appended to the divergence or the
\* dissimilarity sequence.
C13_NoInfiniteDivergence ==
    /\ \A x \in 1..Len(divergence) : IsFinite(divergence[x])
    /\ \A x \in 1..Len(dissimilarity) : IsFinite(dissimilarity[x])

---------------------------------------------------------------------------
(* Properties of the running-estimate count, checked under Spec *)

\* a changepoint was appended by the decision step just taken (index j - 1)
EmittedAtLastStep ==
    changepoints # <<>> /\ changepoints[Len(changepoints)] = j - 1

\* C14: in 'increase' mode, after the decision step at an index the count n
\* is back at 2 exactly when that step emitted a changepoint; a suppressed
\* upward crossing leaves n incremented, not reset.
C14_ResetOnlyOnEmission ==
    (method = "increase" /\ crossed # <<>> /\ pc \in {"detect", "translate"})
        => (n = 2 <=> EmittedAtLastStep)

---------------------------------------------------------------------------
(* Properties of the scoring / training order of compute_dissimilarity, *)
(* checked under SpecDissim                                              *)

\* C15: compute_dissimilarity runs len(Xi) - lag - 1 iterations; iteration i
\* scores mini-batch i (lagged) and mini-batch i + lag (recent), both inside
\* Xi, with the classifier as i gradient steps have left it, then takes one
\* more step; the step count is never reset.
C15_ScoreThenStep ==
    /\ i <= DissimIterations(numBatches, lag)
    /\ dpc = "done" => i = DissimIterations(numBatches, lag)
    /\ Len(divergence) = i
    /\ Len(scored) = i
    /\ gradSteps = i
    /\ \A x \in 1..Len(scored) :
         /\ scored[x] = [lagged |-> x - 1, recent |-> x - 1 + lag, steps |-> x - 1]
         /\ scored[x].recent < numBatches

C15_Witness ==
    /\ dpc = "done"
    /\ lag = MaxLag
    /\ Len(scored) >= 3
    /\ gradSteps = numBatches - lag - 1

---------------------------------------------------------------------------
(* Properties of the EWMA sequences, checked under Spec *)

\* C16: once detect_bump / detect_increase has run over a non-empty
\* dissimilarity sequence of length D with burnin in 0..D, Z and sigma_Z have
\* D entries, Z[0] = 0 and Z[jj] = (1 - r) * Z[jj-1] + r * dissimilarity[jj]
\* for 1 <= jj < D.
C16_EwmaAligned ==
    (pc = "translate" /\ Len(dissimilarity) >= 1 /\ burnin <= Len(dissimilarity))
        => /\ Len(Z) = Len(dissimilarity)
           /\ Len(sigma_Z) = Len(dissimilarity)
           /\ PyIndex(Z, 0) = 0
           /\ \A jj \in 1..Len(dissimilarity) - 1 :
                jj < Len(Z) =>
                    PyIndex(Z, jj) = ((rDen - rNum) * PyIndex(Z, jj - 1)
                                       + rNum * PyIndex(dissimilarity, jj)) \div rDen

---------------------------------------------------------------------------
(* Properties of the divergence value, checked under SpecDissim *)

\* log(p / (1 - p)) of a score p = q / ScoreDen
LogOdds(q) == Log(q, ScoreDen - q)

LastDivergence == PyIndex(divergence, -1)

\* C17 (as claimed): the divergence of an iteration is the sum of the log-odds
\* of the lagged and of the recent score, both with the same sign.
C17_SameSignLogOdds ==
    divergence # <<>> => LastDivergence = LogOdds(f_lagged) + LogOdds(f_recent)

\* C17 (amended): the divergence of an iteration is the log-odds of the recent
\* score minus the log-odds of the lagged score, so a lagged score above 1/2
\* lowers it below the recent log-odds and one below 1/2 raises it above.
C17_OppositeSignLogOdds ==
    divergence # <<>> =>
        /\ LastDivergence = LogOdds(f_recent) - LogOdds(f_lagged)
        /\ 2 * f_lagged > ScoreDen => LastDivergence < LogOdds(f_recent)
        /\ 2 * f_lagged < ScoreDen => LastDivergence > LogOdds(f_recent)

C17_Witness ==
    /\ Len(divergence) >= 2
    /\ f_lagged = 3
    /\ f_recent = 1
    /\ LastDivergence = 0 - 2 * Ln3

---------------------------------------------------------------------------
(* Properties of CUSUM, checked under SpecCUSUM *)

\* the standardised observation of the running iteration
CurrentZ == Standardised(PyIndex(cs_data, cs_i), cs_mu, cs_sigma)

\* C18: once update_statistics has run for an observation, the new T is
\* max(0, T_prev - (x - mu)/sigma - k) with T_prev the previous value of T,
\* and the new S is max(0, S_prev + (x - mu)/sigma - k).
C18_TOwnRecurrence ==
    cs_pc = "decide"
        => /\ PyIndex(cs_T, -1) = Max(0, PyIndex(cs_T, -2) - CurrentZ - cs_k)
           /\ PyIndex(cs_S, -1) = Max(0, PyIndex(cs_S, -2) + CurrentZ - cs_k)

---------------------------------------------------------------------------
(* Frame of the detector, checked under SpecProcess *)

\* detect_bump / detect_increase is running
InDetector == pc = "burnin" \/ pc = "detect"

\* C19: a step of detect_bump or detect_increase leaves the divergence and
\* the dissimilarity sequence, the mini-batches, the stream and the
\* constructor's attributes as they are: it writes only Z, sigma_Z, the
\* running estimates, the bump state or last_cp, and the changepoint list.
C19_DetectorFrame ==
    [][InDetector => UNCHANGED <<dissimilarity, divergence, disVars, winVars, initVars>>]_vars

C19_Witness ==
    /\ pc = "done"
    /\ Len(divergence) >= 4
    /\ \E x \in 1..Len(dissimilarity) : dissimilarity[x] # 0
    /\ Len(crossed) >= 2
    /\ changepoints # <<>>

---------------------------------------------------------------------------
(* Properties of TwoSample, checked under SpecTwoSample *)

\* what every round of TwoSample.process keeps true
RoundsShrink ==
    /\ ts_pc = "returned" =>
          ts_tau = None \/ (ts_tau >= 2 /\ ts_tau < Len(ts_data))
    /\ (ts_pc = "call" /\ ts_cp # <<>>) =>
          /\ ts_tau >= 2
          /\ Len(PySlice(ts_data, ts_tau, Len(ts_data))) < Len(ts_data)
    /\ ts_pc \in {"batch", "returned"} =>
          ts_data = PySlice(ts_stream, SeqSum(ts_cp), Len(ts_stream))
    /\ ts_pc = "done" =>
          /\ PyIndex(ts_cp, -1) = None
          /\ Len(ts_changepoints) = Len(ts_cp) - 1
          /\ StrictlyIncreasing(ts_changepoints)
          /\ \A x \in 1..Len(ts_changepoints) :
                /\ ts_changepoints[x] < Len(ts_stream)
                /\ ts_changepoints[x] = SeqSum(SubSeq(ts_cp, 1, x))

\* C20: TwoSample.process terminates whatever the statistic does (raising
\* included); every round either detects at tau >= 2 and restarts on the
\* strictly shorter remainder data[tau:], or returns None and stops; the
\* changepoints are the running sums of the rounds' positions, strictly
\* increasing and smaller than len(data).
C20_TerminatesOrdered == <>(ts_pc = "done") /\ []RoundsShrink

C20_Witness ==
    /\ ts_pc = "done"
    /\ Len(ts_changepoints) >= 2
    /\ \E x \in 1..Len(ts_D) : ts_D[x] = 0

---------------------------------------------------------------------------
(* Properties of CUSUM.process and EWMA.process, checked under SpecCharts *)

\* the last recorded changepoint, 0 when there is none
LastOrStart(cps) == IF cps = <<>> THEN 0 ELSE PyIndex(cps, -1)

\* the claim for one chart: its changepoints, burnin, stream, counter n and
\* the index ii of the observation the loop handles next
RunLengthOrdered(cps, b, stream, nn, ii) ==
    /\ \A x \in 1..Len(cps) : b <= cps[x] /\ cps[x] < Len(stream)
    /\ StrictlyIncreasing(cps)
    /\ nn = 2 + (ii - 1) - LastOrStart(cps)

\* C21: in a run of CUSUM.process or of EWMA.process every recorded
\* changepoint i has burnin <= i < len(data), the changepoints are strictly
\* increasing, and n is 2 plus the number of observations handled since the
\* last changepoint (since the start when there is none): n is 2 right
\* after a step that records a changepoint and one more after any other.
C21_RunLengthCounter ==
    /\ cs_pc # "idle" =>
          RunLengthOrdered(cs_changepoints, cs_burnin, cs_data, cs_n, cs_i)
    /\ ew_pc # "idle" =>
          RunLengthOrdered(ew_changepoints, ew_burnin, ew_data, ew_n, ew_i)

C21_Witness ==
    /\ cs_pc = "done"
    /\ cs_burnin >= 1
    /\ Len(cs_changepoints) >= 2
    /\ cs_n > 2

====
